---- MODULE Spec2Model ----
(***************************************************************************)
(* Model of streamlit_app_pdf_split.py: the sentence segmenter             *)
(* split_sentences (line merge, punctuation split, exclusion filter) and   *)
(* the Streamlit script main (page-range session state, per-page           *)
(* extraction and the start-button run).                                   *)
(*                                                                         *)
(* A Python str is a sequence of Unicode code points (naturals); the       *)
(* regular expressions of the source are operators over such sequences.    *)
(***************************************************************************)
EXTENDS Integers, Sequences, FiniteSets, TLC

VARIABLES
    text,                 \* argument of split_sentences
    pc,                   \* position in split_sentences / the page check
    lines,                \* text.splitlines()
    i,                    \* index of the next raw line of the merge loop
    merged_lines,         \* logical lines emitted so far
    buffer,               \* pending buffer of the merge loop
    split_by_punctuation, \* candidate sentences
    j,                    \* index of the next logical line of the split loop
    sentences,            \* filtered sentences
    k,                    \* index of the next candidate of the filter loop
    page_sentences,       \* main's sentence list after the first-sentence check
    ranges,               \* st.session_state["ranges"]
    pdf_file,             \* uploaded PDF: the native text of each page, or NoPdf
    image_file,           \* uploaded image: its OCR text, or NoImage
    last_button,          \* which button the last script run handled
    outcome,              \* how the last script run ended
    attempts,             \* per processed page: strategies tried, text segmented
    data                  \* rows collected by the last start-button run

vars == <<text, pc, lines, i, merged_lines, buffer, split_by_punctuation, j,
          sentences, k, page_sentences, ranges, pdf_file, image_file,
          last_button, outcome, attempts, data>>

segVars == <<text, pc, lines, i, merged_lines, buffer, split_by_punctuation, j,
             sentences, k, page_sentences>>

mainVars == <<ranges, pdf_file, image_file, last_button, outcome, attempts, data>>

-----------------------------------------------------------------------------
(* Bounds of the model *)

MaxLines == 3

MaxPages == 2

MaxRanges == 2

-----------------------------------------------------------------------------
(* Generic sequence helpers *)

RECURSIVE Concat(_)
Concat(ss) == IF ss = <<>> THEN <<>> ELSE Head(ss) \o Concat(Tail(ss))

\* Python's `sub in s` for strings
IsSubstring(sub, s) ==
    \E p \in 0..(Len(s) - Len(sub)) :
        \A q \in 1..Len(sub) : s[p + q] = sub[q]

-----------------------------------------------------------------------------
(* Character classes *)

\* str.splitlines() line boundaries: \n \v \f \r \x1c \x1d \x1e \x85 U+2028 U+2029
LineBoundary == {10, 11, 12, 13, 28, 29, 30, 133, 8232, 8233}

\* str.isspace(): what str.strip() removes
Whitespace == (9..13) \cup (28..32) \cup {133, 160, 5760} \cup (8192..8202)
                \cup {8232, 8233, 8239, 8287, 12288}

\* \d of a str pattern: Unicode decimal digits (ASCII, Arabic-Indic, full-width)
UnicodeDigit == (48..57) \cup (1632..1641) \cup (65296..65305)

\* [0-9０-９]
MarkerDigit == (48..57) \cup (65296..65305)

\* [(（] and [)）]
OpenParen == {40, 65288}

CloseParen == {41, 65289}

\* [。．！？.!?]
Terminal == {12290, 65294, 65281, 65311, 46, 33, 63}

\* the string literal "。．！？.!?" of the `seg in ...` test
TerminalString == <<12290, 65294, 65281, 65311, 46, 33, 63>>

\* [ぁ-んァ-ンa-zＡ-Ｚａ-ｚ一-龯A-Z（(【「『]
Continuation == (12353..12435) \cup (12449..12531) \cup (97..122)
                  \cup (65313..65338) \cup (65345..65370) \cup (19968..40879)
                  \cup (65..90) \cup {65288, 40, 12304, 12300, 12302}

-----------------------------------------------------------------------------
(* str.splitlines() and str.strip() *)

\* the n-th smallest element of a finite set of integers
NthOf(S, n) == CHOOSE p \in S : Cardinality({q \in S : q <= p}) = n

\* positions where a line terminator ends; \r\n is one terminator, ending at \n
BreakEnds(t) ==
    {p \in 1..Len(t) :
        /\ t[p] \in LineBoundary
        /\ ~(t[p] = 13 /\ p < Len(t) /\ t[p + 1] = 10)}

\* where the terminator ending at p starts
BreakStart(t, p) == IF t[p] = 10 /\ p > 1 /\ t[p - 1] = 13 THEN p - 1 ELSE p

\* the pieces between terminators; no empty piece after a final terminator
splitlines(t) ==
    LET E == BreakEnds(t)
        cnt == Cardinality(E)
        first(n) == IF n = 1 THEN 1 ELSE NthOf(E, n - 1) + 1
        last(n) == IF n <= cnt THEN BreakStart(t, NthOf(E, n)) - 1 ELSE Len(t)
        total == IF first(cnt + 1) <= Len(t) THEN cnt + 1 ELSE cnt
    IN [n \in 1..total |-> SubSeq(t, first(n), last(n))]

lstrip(s) ==
    IF s = <<>> \/ s[1] \notin Whitespace THEN s
    ELSE LET keep == {q \in 1..Len(s) : s[q] \notin Whitespace} IN
         IF keep = {} THEN <<>> ELSE SubSeq(s, NthOf(keep, 1), Len(s))

rstrip(s) ==
    IF s = <<>> \/ s[Len(s)] \notin Whitespace THEN s
    ELSE LET keep == {q \in 1..Len(s) : s[q] \notin Whitespace} IN
         IF keep = {} THEN <<>> ELSE SubSeq(s, 1, NthOf(keep, Cardinality(keep)))

strip(s) == rstrip(lstrip(s))

-----------------------------------------------------------------------------
(* The regular expressions of split_sentences *)

\* position just before which `$` matches: the end, or before a final \n
EndPositions(s) ==
    {Len(s)} \cup (IF s # <<>> /\ s[Len(s)] = 10 THEN {Len(s) - 1} ELSE {})

\* `.` matches anything but \n
NoNewline(s, a, b) == \A q \in a..b : s[q] # 10

\* re.match(r'^\d{1,2}[ 　]*【.+】$', line)
IsHeading(line) ==
    \E d \in 1..2, sp \in 0..Len(line), e \in EndPositions(line) :
        /\ e >= d + sp + 3
        /\ \A q \in 1..d : line[q] \in UnicodeDigit
        /\ \A q \in (d + 1)..(d + sp) : line[q] \in {32, 12288}
        /\ line[d + sp + 1] = 12304
        /\ NoNewline(line, d + sp + 2, e - 1)
        /\ line[e] = 12305

\* re.match(r'^[(（][0-9０-９]{1,3}[)）]', line)
IsListMarker(line) ==
    \E d \in 1..3 :
        /\ Len(line) >= d + 2
        /\ line[1] \in OpenParen
        /\ \A q \in 2..(d + 1) : line[q] \in MarkerDigit
        /\ line[d + 2] \in CloseParen

\* re.search(r'[。．！？.!?]$', buffer)
EndsWithTerminal(buf) ==
    \E e \in EndPositions(buf) : e >= 1 /\ buf[e] \in Terminal

\* faulty variant: the ideograph range 一-龯 is missing from the class
IsContinuationStartNoIdeograph(line) ==
    line # <<>> /\ line[1] \in Continuation \ (19968..40879)

\* re.match(r'^[ぁ-んァ-ンa-zＡ-Ｚａ-ｚ一-龯A-Z（(【「『]', line)
IsContinuationStart(line) ==
    line # <<>> /\ line[1] \in Continuation

\* re.match(r'^[(（]?[0-9０-９]{1,3}[)）]?.*$', line)
IsNumberedLine(line) ==
    \E p \in 0..1, e \in EndPositions(line) :
        /\ e >= p + 1
        /\ p = 1 => line[1] \in OpenParen
        /\ line[p + 1] \in MarkerDigit
        /\ NoNewline(line, p + 2, e)

\* re.compile(r'.+株式会社\(E\d{5}\)').search(s)
CompanySearch(s) ==
    \E p \in 2..(Len(s) - 11) :
        /\ s[p - 1] # 10
        /\ SubSeq(s, p, p + 3) = <<26666, 24335, 20250, 31038>>
        /\ s[p + 4] = 40
        /\ s[p + 5] = 69
        /\ \A q \in (p + 6)..(p + 10) : s[q] \in UnicodeDigit
        /\ s[p + 11] = 41

\* r'^\d{1,3}/\d{1,3}$', used with search in the filter and match in main
PageNumberMatch(s) ==
    \E a \in 1..3, b \in 1..3, e \in EndPositions(s) :
        /\ e = a + 1 + b
        /\ \A q \in 1..a : s[q] \in UnicodeDigit
        /\ s[a + 1] = 47
        /\ \A q \in (a + 2)..e : s[q] \in UnicodeDigit

-----------------------------------------------------------------------------
(* Line merge: one iteration of the loop over the raw lines *)

MergeState(ml, buf) == [merged_lines |-> ml, buffer |-> buf]

\* faulty variant: the heading joins the pending buffer instead of flushing it
emit_standalone_joined(ml, buf, line) == MergeState(Append(ml, buf \o line), <<>>)

\* lines 28-32: flush the pending buffer, emit the heading/marker line
emit_standalone(ml, buf, line) ==
    MergeState((IF buf # <<>> THEN Append(ml, buf) ELSE ml) \o <<line>>, <<>>)

\* faulty variant: the continuation is appended with a separating space
merge_or_flush_spaced(ml, buf, line) ==
    IF buf # <<>>
    THEN IF ~EndsWithTerminal(buf) /\ IsContinuationStart(line)
         THEN MergeState(ml, buf \o <<32>> \o line)
         ELSE MergeState(Append(ml, buf), line)
    ELSE MergeState(ml, line)

\* faulty variant: the flushed buffer is dropped instead of emitted
merge_or_flush_dropping(ml, buf, line) ==
    IF buf # <<>>
    THEN IF ~EndsWithTerminal(buf) /\ IsContinuationStart(line)
         THEN MergeState(ml, buf \o line)
         ELSE MergeState(ml, line)
    ELSE MergeState(ml, line)

\* lines 34-44: append a continuation line, else flush and start a new buffer
merge_or_flush(ml, buf, line) ==
    IF buf # <<>>
    THEN IF ~EndsWithTerminal(buf) /\ IsContinuationStart(line)
         THEN MergeState(ml, buf \o line)
         ELSE MergeState(Append(ml, buf), line)
    ELSE MergeState(ml, line)

\* lines 23-44: the body of `for line in lines`
merge_line(ml, buf, raw) ==
    LET line == strip(raw) IN
    IF line = <<>> THEN MergeState(ml, buf)
    ELSE IF IsHeading(line) \/ IsListMarker(line)
         THEN emit_standalone(ml, buf, line)
         ELSE merge_or_flush(ml, buf, line)

\* lines 46-47: the flush after the loop
final_flush(ml, buf) == IF buf # <<>> THEN Append(ml, buf) ELSE ml

-----------------------------------------------------------------------------
(* Punctuation split *)

\* re.split(r'([。．！？.!?])', line): text, separator, text, ..., text
re_split(line) ==
    LET T == {p \in 1..Len(line) : line[p] \in Terminal}
        cnt == Cardinality(T)
        first(n) == IF n = 1 THEN 1 ELSE NthOf(T, n - 1) + 1
        last(n) == IF n <= cnt THEN NthOf(T, n) - 1 ELSE Len(line)
    IN [m \in 1..(2 * cnt + 1) |->
          IF m % 2 = 1
          THEN SubSeq(line, first((m + 1) \div 2), last((m + 1) \div 2))
          ELSE <<line[NthOf(T, m \div 2)]>>]

\* faulty variant: the emitted sentence is not stripped
emit_unstripped(out, sentence) ==
    IF strip(sentence) # <<>> THEN Append(out, sentence) ELSE out

\* lines 59-60 and 64-65: emit the running sentence when it is not blank
emit(out, sentence) ==
    IF strip(sentence) # <<>> THEN Append(out, strip(sentence)) ELSE out

\* lines 55-65: accumulate the segments into sentences
RECURSIVE Accumulate(_, _, _, _)
Accumulate(segments, p, sentence, out) ==
    IF p > Len(segments) THEN emit(out, sentence)
    ELSE IF IsSubstring(segments[p], TerminalString)
         THEN LET s2 == sentence \o segments[p] IN
              IF strip(s2) # <<>>
              THEN Accumulate(segments, p + 1, <<>>, emit(out, s2))
              ELSE Accumulate(segments, p + 1, s2, out)
         ELSE Accumulate(segments, p + 1, sentence \o segments[p], out)

\* lines 51-65: the candidates one logical line contributes
split_line(line) ==
    IF IsNumberedLine(line) THEN <<line>>
    ELSE Accumulate(re_split(line), 1, <<>>, <<>>)

-----------------------------------------------------------------------------
(* Exclusion filter *)

\* lines 67-72
exclude_keywords ==
    << [kind |-> "str", val |-> <<69, 68, 73, 78, 69, 84, 25552, 20986, 26360, 39006>>],
       [kind |-> "str", val |-> <<26377, 20385, 35388, 21048, 22577, 21578, 26360>>],
       [kind |-> "re", val |-> "company"],
       [kind |-> "re", val |-> "page"] >>

\* lines 78-83: one keyword against one candidate
keyword_hits(kw, s) ==
    IF kw.kind = "str" THEN IsSubstring(kw.val, s)
    ELSE IF kw.val = "company" THEN CompanySearch(s) ELSE PageNumberMatch(s)

\* faulty variant: only the string keywords are tried
is_excluded_strings_only(s) ==
    \E n \in 1..Len(exclude_keywords) :
        exclude_keywords[n].kind = "str" /\ keyword_hits(exclude_keywords[n], s)

\* lines 76-83: the loop over the keywords, left at the first hit
is_excluded(s) ==
    \E n \in 1..Len(exclude_keywords) : keyword_hits(exclude_keywords[n], s)

\* faulty variant: the test of the exclude flag is inverted
filter_candidate_inverted(out, s) == IF is_excluded(s) THEN Append(out, s) ELSE out

\* lines 75-85: one iteration of the filter loop
filter_candidate(out, s) == IF is_excluded(s) THEN out ELSE Append(out, s)

-----------------------------------------------------------------------------
(* split_sentences as a function, for its callers *)

RECURSIVE MergeAll(_, _, _, _)
MergeAll(ls, p, ml, buf) ==
    IF p > Len(ls) THEN final_flush(ml, buf)
    ELSE LET st == merge_line(ml, buf, ls[p]) IN
         MergeAll(ls, p + 1, st.merged_lines, st.buffer)

RECURSIVE SplitAll(_, _, _)
SplitAll(ml, p, out) ==
    IF p > Len(ml) THEN out ELSE SplitAll(ml, p + 1, out \o split_line(ml[p]))

RECURSIVE FilterAll(_, _, _)
FilterAll(cands, p, out) ==
    IF p > Len(cands) THEN out
    ELSE FilterAll(cands, p + 1, filter_candidate(out, cands[p]))

split_sentences(t) ==
    IF t = <<>> THEN <<>>
    ELSE FilterAll(SplitAll(MergeAll(splitlines(t), 1, <<>>, <<>>), 1, <<>>), 1, <<>>)

\* main, lines 167-168: drop a leading bare page number
drop_page_number(ss) ==
    IF ss # <<>> /\ PageNumberMatch(ss[1]) THEN Tail(ss) ELSE ss

-----------------------------------------------------------------------------
(* Page texts the segmenter is run on: up to MaxLines raw lines, joined by \n *)

LinePool ==
    << <<32, 12288>>,
       \* "製品の販売状況は"
       <<35069, 21697, 12398, 36009, 22770, 29366, 27841, 12399>>,
       \* "好調である。"
       <<22909, 35519, 12391, 12354, 12427, 12290>>,
       \* "5　【経営方針】"
       <<53, 12288, 12304, 32076, 21942, 26041, 37341, 12305>>,
       \* "(1)あ"
       <<40, 49, 41, 12354>>,
       \* "1/5"
       <<49, 47, 53>>,
       \* " abc. "
       <<32, 97, 98, 99, 46, 32>>,
       \* "第一部【企業情報】"
       <<31532, 19968, 37096, 12304, 20225, 26989, 24773, 22577, 12305>>,
       \* "当社は東京都に本店を置く。EDINET提出書類である。1/5"
       <<24403, 31038, 12399, 26481, 20140, 37117, 12395, 26412, 24215, 12434,
         32622, 12367, 12290, 69, 68, 73, 78, 69, 84, 25552, 20986, 26360,
         39006, 12391, 12354, 12427, 12290, 49, 47, 53>>,
       \* "有価証券報告書。A株式会社(E12345)。"
       <<26377, 20385, 35388, 21048, 22577, 21578, 26360, 12290, 65, 26666,
         24335, 20250, 31038, 40, 69, 49, 50, 51, 52, 53, 41, 12290>>,
       \* "2024年。来年。"
       <<50, 48, 50, 52, 24180, 12290, 26469, 24180, 12290>>,
       \* "-い。 う"
       <<45, 12356, 12290, 32, 12358>>,
       \* "。。あ"
       <<12290, 12290, 12354>> >>

RECURSIVE JoinLines(_)
JoinLines(ls) ==
    IF ls = <<>> THEN <<>>
    ELSE IF Len(ls) = 1 THEN ls[1]
    ELSE ls[1] \o <<10>> \o JoinLines(Tail(ls))

PageTexts ==
    { JoinLines([n \in 1..Len(c) |-> LinePool[c[n]]]) :
        c \in UNION { [1..m -> 1..Len(LinePool)] : m \in 0..MaxLines } }

\* bool(pdf_file) / bool(image_file) is False: nothing uploaded
NoPdf == [present |-> FALSE, pages |-> <<>>]

NoImage == [present |-> FALSE, text |-> <<>>]

-----------------------------------------------------------------------------
(* split_sentences, step by step, followed by main's first-sentence check *)

Init ==
    /\ text \in PageTexts
    /\ pc = "start"
    /\ lines = <<>>
    /\ i = 1
    /\ merged_lines = <<>>
    /\ buffer = <<>>
    /\ split_by_punctuation = <<>>
    /\ j = 1
    /\ sentences = <<>>
    /\ k = 1
    /\ page_sentences = <<>>
    /\ ranges = <<>>
    /\ pdf_file = NoPdf
    /\ image_file = NoImage
    /\ last_button = "none"
    /\ outcome = "none"
    /\ attempts = <<>>
    /\ data = <<>>

\* lines 15-16: an empty text returns [] at once
ReturnEmpty ==
    /\ pc = "start"
    /\ text = <<>>
    /\ pc' = "returned"
    /\ UNCHANGED <<text, lines, i, merged_lines, buffer, split_by_punctuation,
                   j, sentences, k, page_sentences>>
    /\ UNCHANGED mainVars

\* lines 18-20
SplitLines ==
    /\ pc = "start"
    /\ text # <<>>
    /\ lines' = splitlines(text)
    /\ i' = 1
    /\ merged_lines' = <<>>
    /\ buffer' = <<>>
    /\ pc' = "merge"
    /\ UNCHANGED <<text, split_by_punctuation, j, sentences, k, page_sentences>>
    /\ UNCHANGED mainVars

\* lines 22-44: one raw line
MergeLine ==
    /\ pc = "merge"
    /\ i <= Len(lines)
    /\ LET st == merge_line(merged_lines, buffer, lines[i]) IN
         /\ merged_lines' = st.merged_lines
         /\ buffer' = st.buffer
    /\ i' = i + 1
    /\ UNCHANGED <<text, pc, lines, split_by_punctuation, j, sentences, k,
                   page_sentences>>
    /\ UNCHANGED mainVars

\* lines 46-49: end of input
MergeFlush ==
    /\ pc = "merge"
    /\ i > Len(lines)
    /\ merged_lines' = final_flush(merged_lines, buffer)
    /\ buffer' = <<>>
    /\ split_by_punctuation' = <<>>
    /\ j' = 1
    /\ pc' = "split"
    /\ UNCHANGED <<text, lines, i, sentences, k, page_sentences>>
    /\ UNCHANGED mainVars

\* lines 50-65: one logical line
SplitLine ==
    /\ pc = "split"
    /\ j <= Len(merged_lines)
    /\ split_by_punctuation' = split_by_punctuation \o split_line(merged_lines[j])
    /\ j' = j + 1
    /\ UNCHANGED <<text, pc, lines, i, merged_lines, buffer, sentences, k,
                   page_sentences>>
    /\ UNCHANGED mainVars

\* lines 67-74
StartFilter ==
    /\ pc = "split"
    /\ j > Len(merged_lines)
    /\ sentences' = <<>>
    /\ k' = 1
    /\ pc' = "filter"
    /\ UNCHANGED <<text, lines, i, merged_lines, buffer, split_by_punctuation,
                   j, page_sentences>>
    /\ UNCHANGED mainVars

\* lines 75-85: one candidate
FilterCandidate ==
    /\ pc = "filter"
    /\ k <= Len(split_by_punctuation)
    /\ sentences' = filter_candidate(sentences, split_by_punctuation[k])
    /\ k' = k + 1
    /\ UNCHANGED <<text, pc, lines, i, merged_lines, buffer,
                   split_by_punctuation, j, page_sentences>>
    /\ UNCHANGED mainVars

\* line 87
Return ==
    /\ pc = "filter"
    /\ k > Len(split_by_punctuation)
    /\ pc' = "returned"
    /\ UNCHANGED <<text, lines, i, merged_lines, buffer, split_by_punctuation,
                   j, sentences, k, page_sentences>>
    /\ UNCHANGED mainVars

\* main, lines 166-168: the caller's check of the returned list
PageCheck ==
    /\ pc = "returned"
    /\ page_sentences' = drop_page_number(sentences)
    /\ pc' = "done"
    /\ UNCHANGED <<text, lines, i, merged_lines, buffer, split_by_punctuation,
                   j, sentences, k>>
    /\ UNCHANGED mainVars

Next ==
    \/ ReturnEmpty
    \/ SplitLines
    \/ MergeLine
    \/ MergeFlush
    \/ SplitLine
    \/ StartFilter
    \/ FilterCandidate
    \/ Return
    \/ PageCheck

Spec == Init /\ [][Next]_vars

-----------------------------------------------------------------------------
(* main: the form, its validation and the file name *)

\* [一-龥A-Za-z0-9぀-ヿ㐀-䶿一-鿿ｦ-ﾝ
\*  　-〿・ー\s\-\(\)\[\]【】『』「」、。]
CompanyChar == (19968..40869) \cup (65..90) \cup (97..122) \cup (48..57)
                 \cup (12352..12543) \cup (13312..19903) \cup (19968..40959)
                 \cup (65382..65437) \cup (12288..12351) \cup {12539, 12540}
                 \cup Whitespace
                 \cup {45, 40, 41, 91, 93, 12304, 12305, 12302, 12303, 12300,
                       12301, 12289, 12290}

\* line 126
valid_company(company) ==
    \E e \in EndPositions(company) :
        e >= 1 /\ \A q \in 1..e : company[q] \in CompanyChar

\* line 127: ^\d{4}$
valid_year(year) ==
    \E e \in EndPositions(year) :
        e = 4 /\ \A q \in 1..4 : year[q] \in UnicodeDigit

\* line 128: month == '' or ^(0?[1-9]|1[0-2])$
valid_month(month) ==
    \/ month = <<>>
    \/ \E e \in EndPositions(month) :
         LET m == SubSeq(month, 1, e) IN
         \/ e = 1 /\ m[1] \in 49..57
         \/ e = 2 /\ m[1] = 48 /\ m[2] \in 49..57
         \/ e = 2 /\ m[1] = 49 /\ m[2] \in 48..50

\* line 129: day == '' or ^(0?[1-9]|[12][0-9]|3[01])$
valid_day(day) ==
    \/ day = <<>>
    \/ \E e \in EndPositions(day) :
         LET m == SubSeq(day, 1, e) IN
         \/ e = 1 /\ m[1] \in 49..57
         \/ e = 2 /\ m[1] = 48 /\ m[2] \in 49..57
         \/ e = 2 /\ m[1] \in 49..50 /\ m[2] \in 48..57
         \/ e = 2 /\ m[1] = 51 /\ m[2] \in 48..49

\* int(s) returns instead of raising ValueError: blanks stripped, an optional
\* sign, then decimal digits that single underscores may separate
int_parses(s) ==
    LET t == strip(s)
        u == IF t # <<>> /\ t[1] \in {43, 45} THEN Tail(t) ELSE t
    IN /\ u # <<>>
       /\ u[1] \in UnicodeDigit
       /\ u[Len(u)] \in UnicodeDigit
       /\ \A q \in 1..Len(u) : u[q] \in UnicodeDigit \cup {95}
       /\ \A q \in 1..(Len(u) - 1) : ~(u[q] = 95 /\ u[q + 1] = 95)

\* lines 141-149: building the file name raises when int(month) or int(day) does
filename_raises(f) ==
    /\ f.custom_filename = <<>>
    /\ \/ f.month # <<>> /\ ~int_parses(f.month)
       \/ f.day # <<>> /\ ~int_parses(f.day)

\* line 153: the condition under which the run goes on
form_ok(f) ==
    /\ f.company # <<>>
    /\ f.year # <<>>
    /\ valid_company(f.company)
    /\ valid_year(f.year)
    /\ valid_month(f.month)
    /\ valid_day(f.day)

Form(c, y, m, d, fn) ==
    [company |-> c, year |-> y, month |-> m, day |-> d, custom_filename |-> fn]

\* the form contents a user may have typed when a button is pressed
Forms ==
    { Form(<<65>>, <<50, 48, 50, 52>>, <<>>, <<>>, <<>>),
      Form(<<65>>, <<50, 48, 50, 52>>, <<51>>, <<51, 49>>, <<>>),
      Form(<<>>, <<50, 48, 50, 52>>, <<>>, <<>>, <<>>),
      Form(<<60>>, <<50, 48, 50, 52>>, <<>>, <<>>, <<>>),
      Form(<<65>>, <<50, 52>>, <<>>, <<>>, <<>>),
      Form(<<65>>, <<50, 48, 50, 52>>, <<49, 51>>, <<>>, <<>>),
      Form(<<65>>, <<50, 48, 50, 52>>, <<>>, <<51, 50>>, <<>>),
      Form(<<65>>, <<50, 48, 50, 52>>, <<120>>, <<>>, <<>>),
      Form(<<65>>, <<50, 48, 50, 52>>, <<120>>, <<>>, <<111, 117, 116>>) }

-----------------------------------------------------------------------------
(* main: the start-button run *)

\* native texts of PDF pages: "1/5" (no CJK, no sentence), "好調である。"
NativeTexts == { LinePool[6], LinePool[3] }

\* OCR texts of uploaded images
OcrTexts == { LinePool[3] }

PdfFiles ==
    { [present |-> TRUE, pages |-> ps] :
        ps \in UNION { [1..n -> NativeTexts] : n \in 1..MaxPages } }

ImageFiles == { [present |-> TRUE, text |-> t] : t \in OcrTexts }

PageNumbers == 1..(MaxPages + 1)

\* split_sentences on the texts main meets, computed once
Segmented == [t \in NativeTexts \cup OcrTexts |-> split_sentences(t)]

\* faulty variant: a page goes through OCR after the native extraction
extract_page_with_ocr(t) ==
    [tried |-> <<"NativeLayout", "OCR">>, native |-> t, segmented |-> t]

\* lines 164-166: the page's text is extract_text(), handed to split_sentences
extract_page(t) ==
    [tried |-> <<"NativeLayout">>, native |-> t, segmented |-> t]

\* lines 161-163: the pages visited, in order
RECURSIVE PagesFrom(_, _, _)
PagesFrom(p, e, n) ==
    IF p > e THEN <<>>
    ELSE (IF p <= n THEN <<p>> ELSE <<>>) \o PagesFrom(p + 1, e, n)

RECURSIVE PagesVisited(_, _)
PagesVisited(rs, n) ==
    IF rs = <<>> THEN <<>>
    ELSE PagesFrom(rs[1][1], rs[1][2], n) \o PagesVisited(Tail(rs), n)

\* lines 169-170 and 176-177: the rows of one source
Rows(source, ss) ==
    [n \in 1..Len(ss) |-> [source |-> source, idx |-> n, s |-> ss[n]]]

\* lines 166-170
page_rows(p, t) ==
    Rows(p, drop_page_number(Segmented[extract_page(t).segmented]))

RECURSIVE PdfRows(_, _)
PdfRows(pages, ps) ==
    IF ps = <<>> THEN <<>>
    ELSE page_rows(ps[1], pages[ps[1]]) \o PdfRows(pages, Tail(ps))

\* lines 159-177
collect_data(pdf, img, rs) ==
    (IF pdf.present /\ rs # <<>>
     THEN PdfRows(pdf.pages, PagesVisited(rs, Len(pdf.pages)))
     ELSE <<>>)
    \o (IF img.present THEN Rows(0, Segmented[img.text]) ELSE <<>>)

\* faulty variant: the list is reset at the end of every run
ranges_after_run_always_reset(rs, d) == <<>>

\* lines 179-195: the range list is reset only when rows were collected
ranges_after_run(rs, d) == IF d # <<>> THEN <<>> ELSE rs

InitMain ==
    /\ text = <<>>
    /\ pc = "idle"
    /\ lines = <<>>
    /\ i = 1
    /\ merged_lines = <<>>
    /\ buffer = <<>>
    /\ split_by_punctuation = <<>>
    /\ j = 1
    /\ sentences = <<>>
    /\ k = 1
    /\ page_sentences = <<>>
    /\ ranges = <<>>
    /\ pdf_file = NoPdf
    /\ image_file = NoImage
    /\ last_button = "none"
    /\ outcome = "none"
    /\ attempts = <<>>
    /\ data = <<>>

\* line 98: a PDF is uploaded or removed (a rerun with no button pressed)
UploadPdf ==
    /\ \E f \in PdfFiles \cup {NoPdf} : pdf_file' = f
    /\ last_button' = "none"
    /\ outcome' = "none"
    /\ attempts' = <<>>
    /\ data' = <<>>
    /\ UNCHANGED <<ranges, image_file>>
    /\ UNCHANGED segVars

\* line 116: an image is uploaded or removed (a rerun with no button pressed)
UploadImage ==
    /\ \E f \in ImageFiles \cup {NoImage} : image_file' = f
    /\ last_button' = "none"
    /\ outcome' = "none"
    /\ attempts' = <<>>
    /\ data' = <<>>
    /\ UNCHANGED <<ranges, pdf_file>>
    /\ UNCHANGED segVars

\* lines 103-107: the add-range button (the rest of the rerun changes no state)
AddRange ==
    /\ Len(ranges) < MaxRanges
    /\ \E start_page \in PageNumbers, end_page \in PageNumbers :
         IF end_page >= start_page
         THEN /\ ranges' = Append(ranges, <<start_page, end_page>>)
              /\ outcome' = "added"
         ELSE /\ ranges' = ranges
              /\ outcome' = "rejected"
    /\ last_button' = "add"
    /\ attempts' = <<>>
    /\ data' = <<>>
    /\ UNCHANGED <<pdf_file, image_file>>
    /\ UNCHANGED segVars

\* lines 141-195: the start button
StartRun ==
    /\ \E f \in Forms :
         IF filename_raises(f)
         THEN /\ outcome' = "error"
              /\ attempts' = <<>>
              /\ data' = <<>>
              /\ ranges' = ranges
         ELSE IF ~form_ok(f)
         THEN /\ outcome' = "invalid_form"
              /\ attempts' = <<>>
              /\ data' = <<>>
              /\ ranges' = ranges
         ELSE LET d == collect_data(pdf_file, image_file, ranges)
                  ps == IF pdf_file.present /\ ranges # <<>>
                        THEN PagesVisited(ranges, Len(pdf_file.pages))
                        ELSE <<>>
              IN /\ data' = d
                 /\ attempts' = [n \in 1..Len(ps) |-> extract_page(pdf_file.pages[ps[n]])]
                 /\ outcome' = IF d # <<>> THEN "success" ELSE "no_data"
                 /\ ranges' = ranges_after_run(ranges, d)
    /\ last_button' = "start"
    /\ UNCHANGED <<pdf_file, image_file>>
    /\ UNCHANGED segVars

NextMain ==
    \/ UploadPdf
    \/ UploadImage
    \/ AddRange
    \/ StartRun

SpecMain == InitMain /\ [][NextMain]_vars

-----------------------------------------------------------------------------
(* Properties *)

\* Hiragana, Katakana and CJK unified ideographs
CJK == (12352..12447) \cup (12448..12543) \cup (19968..40959)

HasCJK(s) == \E q \in 1..Len(s) : s[q] \in CJK

Returned == pc \in {"returned", "done"}

\* C1 as stated: every sentence returned by split_sentences has at least 5
\* characters and contains at least one CJK character.
C1_MinContent ==
    Returned =>
        \A n \in 1..Len(sentences) :
            Len(sentences[n]) >= 5 /\ HasCJK(sentences[n])

\* C1 as amended: every sentence returned by split_sentences is non-empty and
\* has no leading or trailing whitespace (no minimum length of 5, no CJK
\* character required).
C1_NonEmptyTrimmed ==
    Returned =>
        \A n \in 1..Len(sentences) :
            /\ sentences[n] # <<>>
            /\ sentences[n][1] \notin Whitespace
            /\ sentences[n][Len(sentences[n])] \notin Whitespace

\* a short sentence without CJK is returned, cut out of a line with blanks
C1_Witness ==
    /\ pc = "returned"
    /\ \E n \in 1..Len(sentences) :
         Len(sentences[n]) < 5 /\ ~HasCJK(sentences[n])
    /\ \E n \in 1..Len(lines) : lines[n] # strip(lines[n]) /\ strip(lines[n]) # <<>>

\* C2: no sentence returned by split_sentences contains "EDINET提出書類" or
\* "有価証券報告書", and none is matched by the company pattern
\* <anything>株式会社(E#####) or by the bare page-footer pattern <num>/<num>.
C2_NoExcluded ==
    Returned =>
        \A n \in 1..Len(sentences) :
            /\ ~IsSubstring(<<69, 68, 73, 78, 69, 84, 25552, 20986, 26360, 39006>>,
                            sentences[n])
            /\ ~IsSubstring(<<26377, 20385, 35388, 21048, 22577, 21578, 26360>>,
                            sentences[n])
            /\ ~CompanySearch(sentences[n])
            /\ ~PageNumberMatch(sentences[n])

\* candidates of all four kinds were produced and some sentence is returned
C2_Witness ==
    /\ pc = "returned"
    /\ sentences # <<>>
    /\ \E n \in 1..Len(split_by_punctuation) :
         IsSubstring(<<69, 68, 73, 78, 69, 84, 25552, 20986, 26360, 39006>>,
                     split_by_punctuation[n])
    /\ \E n \in 1..Len(split_by_punctuation) :
         IsSubstring(<<26377, 20385, 35388, 21048, 22577, 21578, 26360>>,
                     split_by_punctuation[n])
    /\ \E n \in 1..Len(split_by_punctuation) : CompanySearch(split_by_punctuation[n])
    /\ \E n \in 1..Len(split_by_punctuation) : PageNumberMatch(split_by_punctuation[n])

StrategyOrder == <<"NativeLayout", "ExternalCLI", "OCR">>

\* the acceptance test: CJK characters / total characters >= 0.10
AcceptanceTest(t) ==
    10 * Cardinality({q \in 1..Len(t) : t[q] \in CJK}) >= Len(t)

C4_Text == LinePool[8] \o <<10>> \o LinePool[9]

\* C4 as stated: segmenting the two-line example text returns exactly
\* ["第一部【企業情報】", "当社は東京都に本店を置く。"].
C4_TwoSentences ==
    (Returned /\ text = C4_Text) =>
        sentences = << LinePool[8], SubSeq(LinePool[9], 1, 13) >>

\* C4 as amended: segmenting the two-line example text returns exactly the one
\* sentence "第一部【企業情報】当社は東京都に本店を置く。": the first line has
\* no leading digits, so it is no heading and the second line is merged into it;
\* the EDINET sentence and the "1/5" footer are dropped.
C4_OneSentence ==
    (Returned /\ text = C4_Text) =>
        sentences = << LinePool[8] \o SubSeq(LinePool[9], 1, 13) >>

\* the example text has been segmented: three candidates, two of them dropped
C4_Witness ==
    /\ pc = "returned"
    /\ text = C4_Text
    /\ Len(split_by_punctuation) = 3
    /\ Len(sentences) = 1

IsStandalone(line) == IsHeading(line) \/ IsListMarker(line)

\* the last non-blank raw line before position p, <<>> when there is none
RECURSIVE PreviousLine(_, _)
PreviousLine(ls, p) ==
    IF p <= 1 THEN <<>>
    ELSE IF strip(ls[p - 1]) # <<>> THEN strip(ls[p - 1])
    ELSE PreviousLine(ls, p - 1)

\* C5: in the line-merge pass a heading line or a line starting with a
\* parenthesized list marker is never merged with a neighbour: the pending
\* buffer is flushed first as its own logical line (terminal punctuation or
\* not), the line is emitted as its own logical line, and the line that
\* follows it starts a fresh buffer.
C5_StandaloneStep ==
    (pc = "merge" /\ i <= Len(lines) /\ strip(lines[i]) # <<>>) =>
        LET line == strip(lines[i])
            m == Len(merged_lines')
        IN /\ IsStandalone(line) =>
                /\ buffer' = <<>>
                /\ m = Len(merged_lines) + (IF buffer # <<>> THEN 2 ELSE 1)
                /\ SubSeq(merged_lines', 1, Len(merged_lines)) = merged_lines
                /\ merged_lines'[m] = line
                /\ buffer # <<>> => merged_lines'[m - 1] = buffer
           /\ (~IsStandalone(line) /\ IsStandalone(PreviousLine(lines, i))) =>
                /\ buffer' = line
                /\ merged_lines' = merged_lines

C5_HeadingNeverMerged == [][C5_StandaloneStep]_vars

\* a heading was emitted right after a flushed buffer without terminal
\* punctuation, and the line after the heading started a fresh buffer
C5_Witness ==
    /\ pc = "merge"
    /\ i = 4
    /\ IsHeading(strip(lines[2]))
    /\ Len(merged_lines) = 2
    /\ ~EndsWithTerminal(merged_lines[1])
    /\ merged_lines[2] = strip(lines[2])
    /\ buffer = strip(lines[3])
    /\ IsContinuationStart(buffer)

\* "製品の販売状況は\n好調である。"
C6_Text == LinePool[2] \o <<10>> \o LinePool[3]

C6_MergeStep ==
    (/\ pc = "merge"
     /\ i <= Len(lines)
     /\ buffer # <<>>
     /\ strip(lines[i]) # <<>>
     /\ ~IsStandalone(strip(lines[i]))) =>
        LET line == strip(lines[i]) IN
        IF buffer[Len(buffer)] \notin Terminal /\ line[1] \in Continuation
        THEN buffer' = buffer \o line /\ merged_lines' = merged_lines
        ELSE buffer' = line /\ merged_lines' = Append(merged_lines, buffer)

C7_TerminalOnlyLast ==
    \A n \in 1..Len(split_by_punctuation) :
        \A q \in 1..(Len(split_by_punctuation[n]) - 1) :
            split_by_punctuation[n][q] \notin Terminal

\* C8: the line-merge pass loses, duplicates and reorders nothing: at every
\* step the emitted logical lines followed by the pending buffer equal the
\* concatenation of the trimmed non-blank lines consumed so far, and after
\* the end-of-input flush the logical lines equal that of all the lines.
C8_MergeConserves ==
    /\ pc = "merge" =>
         Concat(merged_lines) \o buffer
           = Concat([n \in 1..(i - 1) |-> strip(lines[n])])
    /\ pc \in {"split", "filter", "returned", "done"} =>
         /\ buffer = <<>>
         /\ Concat(merged_lines) = Concat([n \in 1..Len(lines) |-> strip(lines[n])])

\* the pass is over: three non-blank lines, two of them merged into one
C8_Witness ==
    /\ pc = "split"
    /\ Len(lines) = 3
    /\ \A n \in 1..3 : strip(lines[n]) # <<>>
    /\ Len(merged_lines) = 2

\* C9: main's drop of a first sentence matching the bare page-number pattern
\* is a no-op: the list split_sentences returns never starts with such a
\* sentence, so the list is the same before and after the check.
C9_PageCheckNoOp == pc = "done" => page_sentences = sentences

\* the first candidate was a bare page number and sentences were returned
C9_Witness ==
    /\ pc = "done"
    /\ split_by_punctuation # <<>>
    /\ PageNumberMatch(split_by_punctuation[1])
    /\ sentences # <<>>

\* C10 as stated: after every press of the start button, whatever the outcome
\* of the run, the stored range list is empty.
C10_AlwaysReset == last_button = "start" => ranges = <<>>

C10_StartStep ==
    last_button' = "start" =>
        IF outcome' = "success" THEN ranges' = <<>> ELSE ranges' = ranges

\* C10 as amended: a press of the start button empties the stored range list
\* only when the run collected at least one sentence; when validation fails,
\* the file name cannot be built or no sentence is collected, the list is left
\* as it was and carries over into the next run.
C10_ResetOnSuccessOnly == [][C10_StartStep]_vars

\* a run that collected nothing has left the chosen ranges in place
C10_Witness ==
    /\ last_button = "start"
    /\ outcome = "no_data"
    /\ ranges # <<>>

====
